---- MODULE Spec2Model ----
(***************************************************************************)
(* evil_mount (src/src/main.rs): main() clears work_dir, populates it from *)
(* backup_dir, then spawns copy_files(), a polling loop that copies every  *)
(* new or modified file of work_dir to backup_dir.                         *)
(*                                                                         *)
(* Paths are sequences of components.  The filesystem is one record:       *)
(*   content : path -> file content, or None when no file is there         *)
(*   mtime   : modification time (whole seconds) of the files under        *)
(*             work_dir, the only modification times the program reads     *)
(*   dirs    : the set of directories                                      *)
(* Every entry is a regular file or a directory, and work_dir and          *)
(* backup_dir are disjoint trees.  The variables marked "history" record   *)
(* what happened, for the properties; no action reads them in a guard.     *)
(***************************************************************************)
EXTENDS Integers, Sequences, FiniteSets, TLC

\* Bounds of the model.
MaxClock == 2
MaxEdits == 2
MaxFaults == 1

\* Duration::from_secs(1), the pause at the end of a tick.
SleepSecs == 1

None == "none"
Contents == {"hello", "world"}

WorkDir == <<"w">>
BackupDir == <<"b">>
RelPaths == {<<"a">>, <<"d", "a">>}

UnderRoot(root) == {root \o r : r \in RelPaths}
WorkPaths == UnderRoot(WorkDir)
BackupPaths == UnderRoot(BackupDir)
AllPaths == WorkPaths \cup BackupPaths

VARIABLES
    fs,        \* the filesystem: [content, mtime, dirs]
    clock,     \* SystemTime::now() in whole seconds
    mainPc,    \* main(): "clear", "populate", "wait", "exit_ok", "exit_err"
    walk,      \* main(): files of the WalkDir over backup_dir not yet visited
    loopPc,    \* copy_files(): "idle", "snapshot", "join", "sleep", "panicked"
    table,     \* modify_times: a function from its keys to seconds
    snapshot,  \* new_modify_times of the current tick
    task,      \* position or result of the per-file future of each snapshot path
    lock,      \* the RwLock around modify_times: [readers, writers]
    tracked,   \* history: the keys of modify_times when the snapshot was taken
    edited,    \* history: tracked, in-sync files modified since the last snapshot
    due,       \* history: the value of edited captured by the current snapshot
    touched,   \* history: files added or modified since the last snapshot
    seen,      \* history: the value of touched captured by the current snapshot
    edits,     \* number of changes made to work_dir from outside
    faults     \* number of injected I/O failures

vars == <<fs, clock, mainPc, walk, loopPc, table, snapshot, task, lock,
          tracked, edited, due, touched, seen, edits, faults>>

----
\* Path arithmetic (std::path::PathBuf).

IsPrefix(base, path) ==
    /\ Len(base) <= Len(path)
    /\ SubSeq(path, 1, Len(base)) = base

\* Path::strip_prefix: the rest of path after base, or an error.
strip_prefix(path, base) ==
    IF IsPrefix(base, path)
    THEN [ok |-> TRUE, rel |-> SubSeq(path, Len(base) + 1, Len(path))]
    ELSE [ok |-> FALSE, rel |-> <<>>]

\* PathBuf::push of a relative path.
push(buf, rel) == buf \o rel

\* PathBuf::pop: drop the last component.
pop(buf) == IF Len(buf) > 0 THEN SubSeq(buf, 1, Len(buf) - 1) ELSE buf

Ancestors(dir) == {SubSeq(dir, 1, n) : n \in 1..Len(dir)}

----
\* Filesystem primitives.

IsFile(f, p) == p \in DOMAIN f.content /\ f.content[p] # None
IsDir(f, p) == p \in f.dirs

\* WalkDir::new(root) filtered by is_file(): the regular files below root.
WalkFiles(f, root) ==
    {p \in AllPaths : IsPrefix(root, p) /\ Len(p) > Len(root) /\ IsFile(f, p)}

\* fs::read_dir(dir): the direct entries of dir.
Entries(f, dir) ==
    {p \in AllPaths \cup f.dirs :
        /\ Len(p) = Len(dir) + 1
        /\ IsPrefix(dir, p)
        /\ (IsFile(f, p) \/ IsDir(f, p))}

\* remove_dir_all(path) for a directory, remove_file(path) for a file.
RemoveEntry(f, path) ==
    [content |-> [q \in DOMAIN f.content |->
                    IF IsPrefix(path, q) THEN None ELSE f.content[q]],
     mtime   |-> [q \in DOMAIN f.mtime |->
                    IF IsPrefix(path, q) THEN 0 ELSE f.mtime[q]],
     dirs    |-> {d \in f.dirs : ~IsPrefix(path, d)}]

\* fs::create_dir_all(dir): fails when a component of dir is a file.
create_dir_all(f, dir) ==
    IF \E a \in Ancestors(dir) : IsFile(f, a)
    THEN [ok |-> FALSE, fs |-> f]
    ELSE [ok |-> TRUE, fs |-> [f EXCEPT !.dirs = @ \cup Ancestors(dir)]]

WriteFile(f, to, c, now) ==
    [f EXCEPT !.content[to] = c,
              !.mtime = [q \in DOMAIN @ |-> IF q = to THEN now ELSE @[q]]]

\* Mutant of fs_copy: a copy whose source is gone removes the destination.
fs_copy_cleans_up(f, from, to, now) ==
    IF ~IsFile(f, from) \/ IsDir(f, to)
    THEN [ok |-> FALSE, fs |-> [f EXCEPT !.content[to] = None]]
    ELSE [ok |-> TRUE, fs |-> WriteFile(f, to, f.content[from], now)]

\* fs::copy(from, to): opens from, creates or truncates to, copies the bytes.
\* It fails when from is no file or to is a directory.
fs_copy(f, from, to, now) ==
    IF ~IsFile(f, from) \/ IsDir(f, to)
    THEN [ok |-> FALSE, fs |-> f]
    ELSE [ok |-> TRUE, fs |-> WriteFile(f, to, f.content[from], now)]

\* Mutant of dst_path_of: the file name is joined, not the relative path.
dst_path_flat(path, work_dir, backup_dir) ==
    push(backup_dir, <<path[Len(path)]>>)

\* Mutant of dst_path_of: the destination is the source path itself.
dst_path_same(path, work_dir, backup_dir) == path

\* The destination of copy_to_dst: backup_dir joined with path less work_dir.
dst_path_of(path, work_dir, backup_dir) ==
    push(backup_dir, strip_prefix(path, work_dir).rel)

\* copy_to_dst(path, work_dir, backup_dir).  fault = "io" is an I/O failure of
\* create_dir_all (permissions, disk full), returned by the `?` of line 198.
copy_to_dst(f, path, work_dir, backup_dir, now, fault) ==
    LET sp == strip_prefix(path, work_dir)
        dst_path == dst_path_of(path, work_dir, backup_dir)
        mk == create_dir_all(f, pop(dst_path))
    IN  IF ~sp.ok THEN [ok |-> FALSE, fs |-> f]
        ELSE IF fault = "io" \/ ~mk.ok THEN [ok |-> FALSE, fs |-> f]
        ELSE fs_copy(mk.fs, path, dst_path, now)

FaultChoices ==
    IF faults < MaxFaults THEN {"none", "io"} ELSE {"none"}

Spend(fault) == IF fault = "none" THEN faults ELSE faults + 1

----
\* Initial states: any backup directory and any working directory.

\* The directories main() is started on: empty, or holding every file.
InitSets == {{}, RelPaths}

DirsOf(files) ==
    UNION {{SubSeq(p, 1, n) : n \in 1..(Len(p) - 1)} : p \in files}

InitFs(ws, bs) ==
    LET wf == {WorkDir \o r : r \in ws}
        bf == {BackupDir \o r : r \in bs}
    IN  [content |-> [p \in AllPaths |->
                        IF p \in wf THEN "world"
                        ELSE IF p \in bf THEN "hello" ELSE None],
         mtime   |-> [p \in WorkPaths |-> 0],
         dirs    |-> DirsOf(wf \cup bf) \cup {WorkDir, BackupDir}]

\* HashMap::new().
EmptyMap == [p \in {} |-> 0]

\* HashMap::insert(key, value).
insert(map, key, value) ==
    [q \in DOMAIN map \cup {key} |-> IF q = key THEN value ELSE map[q]]

\* The RwLock with nobody holding it.
NoLock == [readers |-> {}, writers |-> {}]

Init ==
    /\ \E ws \in InitSets, bs \in InitSets : fs = InitFs(ws, bs)
    /\ clock = 0
    /\ mainPc = "clear"
    /\ walk = {}
    /\ loopPc = "idle"
    /\ table = EmptyMap
    /\ snapshot = EmptyMap
    /\ task = EmptyMap
    /\ lock = NoLock
    /\ tracked = {}
    /\ edited = {}
    /\ due = {}
    /\ touched = {}
    /\ seen = {}
    /\ edits = 0
    /\ faults = 0

loopVars == <<loopPc, table, snapshot, task, lock, tracked>>
histVars == <<edited, due, touched, seen>>

----
\* main(): the Initializer (lines 45-86), the spawn of copy_files and the
\* wait for ctrl-c (lines 88-94).

\* One iteration of the clearing loop: read_dir(work_dir) yields an entry,
\* which is removed.  A failure of read_dir or of the removal returns Err.
ClearEntry ==
    /\ mainPc = "clear"
    /\ \E e \in Entries(fs, WorkDir), fault \in FaultChoices :
          /\ faults' = Spend(fault)
          /\ IF fault = "none"
             THEN fs' = RemoveEntry(fs, e) /\ mainPc' = mainPc
             ELSE fs' = fs /\ mainPc' = "exit_err"
    /\ UNCHANGED <<clock, walk, edits>>
    /\ UNCHANGED loopVars
    /\ UNCHANGED histVars

\* `while let Ok(Some(..))` ends when next_entry() is Ok(None): work_dir is
\* empty.  The walk over backup_dir starts; walk holds the files it is still
\* to yield.
ClearDone ==
    /\ mainPc = "clear"
    /\ Entries(fs, WorkDir) = {}
    /\ mainPc' = "populate"
    /\ walk' = WalkFiles(fs, BackupDir)
    /\ UNCHANGED <<fs, clock, edits, faults>>
    /\ UNCHANGED loopVars
    /\ UNCHANGED histVars

\* `while let Ok(Some(..))` also ends when next_entry() is Err: the pattern
\* does not match, and main() goes on to populate.
ClearListError ==
    /\ mainPc = "clear"
    /\ Entries(fs, WorkDir) # {}
    /\ faults < MaxFaults
    /\ faults' = faults + 1
    /\ mainPc' = "populate"
    /\ walk' = WalkFiles(fs, BackupDir)
    /\ UNCHANGED <<fs, clock, edits>>
    /\ UNCHANGED loopVars
    /\ UNCHANGED histVars

\* One iteration of the populate loop: copy_to_dst(path, backup_dir, work_dir),
\* whose error main() returns.
PopulateFile ==
    /\ mainPc = "populate"
    /\ \E path \in walk, fault \in FaultChoices :
          LET r == copy_to_dst(fs, path, BackupDir, WorkDir, clock, fault)
          IN  /\ faults' = Spend(fault)
              /\ fs' = r.fs
              /\ walk' = walk \ {path}
              /\ mainPc' = IF r.ok THEN mainPc ELSE "exit_err"
    /\ UNCHANGED <<clock, edits>>
    /\ UNCHANGED loopVars
    /\ UNCHANGED histVars

\* The walk is exhausted: main() spawns copy_files, which creates the empty
\* modify_times, and awaits ctrl-c.
PopulateDone ==
    /\ mainPc = "populate"
    /\ walk = {}
    /\ mainPc' = "wait"
    /\ loopPc' = "snapshot"
    /\ table' = EmptyMap
    /\ UNCHANGED <<fs, clock, walk, snapshot, task, lock, tracked, edits, faults>>
    /\ UNCHANGED histVars

\* ctrl_c() resolves: main() prints "Done!" and returns Ok(()); the runtime
\* drops the spawned task.
CtrlC ==
    /\ mainPc = "wait"
    /\ mainPc' = "exit_ok"
    /\ UNCHANGED <<fs, clock, walk, edits, faults>>
    /\ UNCHANGED loopVars
    /\ UNCHANGED histVars

Alive == mainPc = "wait"

----
\* copy_files(): one tick is a snapshot, the per-file futures, join_all, sleep.

\* Lines 106-131: new_modify_times, the modification time of every regular
\* file below work_dir.
new_modify_times(f) == [p \in WalkFiles(f, WorkDir) |-> f.mtime[p]]

\* Lines 104-133: the snapshot is taken and one future per entry is created.
TakeSnapshot ==
    /\ Alive
    /\ loopPc = "snapshot"
    /\ snapshot' = new_modify_times(fs)
    /\ task' = [p \in DOMAIN new_modify_times(fs) |-> "start"]
    /\ loopPc' = "join"
    /\ tracked' = DOMAIN table
    /\ due' = edited
    /\ seen' = touched
    /\ edited' = {}
    /\ touched' = {}
    /\ UNCHANGED <<fs, clock, mainPc, walk, table, lock, edits, faults>>

\* Mutant of after_metadata_error: the file is left out and the loop goes on.
metadata_error_skipped == "snapshot"

\* Line 120: fs::metadata(..).await.unwrap() panics on Err, inside the only
\* task that runs copy_files.
after_metadata_error == "panicked"

\* Line 120: fs::metadata(..).await.unwrap() panics when the metadata of a
\* file of the walk cannot be read; the spawned task ends there.
SnapshotPanic ==
    /\ Alive
    /\ loopPc = "snapshot"
    /\ WalkFiles(fs, WorkDir) # {}
    /\ faults < MaxFaults
    /\ faults' = faults + 1
    /\ loopPc' = after_metadata_error
    /\ UNCHANGED <<fs, clock, mainPc, walk, table, snapshot, task, lock,
                   tracked, edits>>
    /\ UNCHANGED histVars

Running(p) ==
    /\ Alive
    /\ loopPc = "join"
    /\ p \in DOMAIN task

\* Mutant of branch: a path without an entry is left alone.
branch_ignores_new(map, path, new_mod_time) ==
    IF path \in DOMAIN map /\ new_mod_time > map[path] THEN "copy" ELSE "skipped"

\* Mutant of branch: the comparison of line 146 is not strict.
branch_not_strict(map, path, new_mod_time) ==
    IF path \in DOMAIN map
    THEN IF new_mod_time >= map[path] THEN "copy" ELSE "skipped"
    ELSE "add"

\* Lines 144-162: what the future does with old_mod_time: copy a modified
\* file, add a new one, or return Ok(()).
branch(map, path, new_mod_time) ==
    IF path \in DOMAIN map
    THEN IF new_mod_time > map[path] THEN "copy" ELSE "skipped"
    ELSE "add"

\* Mutant of table_after_modified: the modified branch stores the new
\* modification time.
table_refreshed(map, path, new_mod_time) ==
    [q \in DOMAIN map |-> IF q = path THEN new_mod_time ELSE map[q]]

\* Lines 146-148: the table after the modified branch, which returns the
\* result of copy_to_dst and takes no write access.
table_after_modified(map, path, new_mod_time) == map

\* Mutant of read_guard_dropped: the read guard lives on after the lookup.
read_guard_kept(l, p) == [l EXCEPT !.readers = @ \cup {p}]

\* Lines 139-142: modify_times.read().await is granted while nobody writes;
\* the lookup is made under the read guard, which is dropped at the end of
\* the block, with no await in between.
read_guard_dropped(l, p) == [l EXCEPT !.readers = (@ \cup {p}) \ {p}]

\* Lines 139-146: the lookup and the choice of the branch.
Lookup(p) ==
    /\ Running(p)
    /\ task[p] = "start"
    /\ lock.writers = {}
    /\ lock' = read_guard_dropped(lock, p)
    /\ task' = [task EXCEPT ![p] = branch(table, p, snapshot[p])]
    /\ table' = IF branch(table, p, snapshot[p]) = "copy"
                THEN table_after_modified(table, p, snapshot[p])
                ELSE table
    /\ UNCHANGED <<fs, clock, mainPc, walk, loopPc, snapshot, tracked,
                   edits, faults>>
    /\ UNCHANGED histVars

\* Line 152: modify_times.write().await is granted while nobody holds the lock.
AcquireWrite(p) ==
    /\ Running(p)
    /\ task[p] = "add"
    /\ lock.readers = {}
    /\ lock.writers = {}
    /\ lock' = [lock EXCEPT !.writers = {p}]
    /\ task' = [task EXCEPT ![p] = "writing"]
    /\ UNCHANGED <<fs, clock, mainPc, walk, loopPc, table, snapshot, tracked,
                   edits, faults>>
    /\ UNCHANGED histVars

\* Mutant of table_insert: the entry goes into a fresh map.
table_insert_fresh(map, path, now) == insert(EmptyMap, path, now)

\* Lines 153-159: the table after the insert of the added branch.
table_insert(map, path, now) == insert(map, path, now)

\* Lines 153-160: the insert of SystemTime::now() under the write guard,
\* which is then dropped.
Insert(p) ==
    /\ Running(p)
    /\ task[p] = "writing"
    /\ table' = table_insert(table, p, clock)
    /\ lock' = [lock EXCEPT !.writers = @ \ {p}]
    /\ task' = [task EXCEPT ![p] = "copy"]
    /\ UNCHANGED <<fs, clock, mainPc, walk, loopPc, snapshot, tracked,
                   edits, faults>>
    /\ UNCHANGED histVars

\* Lines 147 and 161: copy_to_dst(path, work_dir, backup_dir), whose result
\* is the result of the future.
Copy(p) ==
    /\ Running(p)
    /\ task[p] = "copy"
    /\ \E fault \in FaultChoices :
          LET r == copy_to_dst(fs, p, WorkDir, BackupDir, clock, fault)
          IN  /\ faults' = Spend(fault)
              /\ fs' = r.fs
              /\ task' = [task EXCEPT ![p] = IF r.ok THEN "copied" ELSE "failed"]
    /\ UNCHANGED <<clock, mainPc, walk, loopPc, table, snapshot, lock, tracked,
                   edits>>
    /\ UNCHANGED histVars

Finished(t) == t \in {"skipped", "copied", "failed"}

\* Mutant of all_joined: the first future to return ends the wait.
any_joined(t) == DOMAIN t = {} \/ \E p \in DOMAIN t : Finished(t[p])

\* Mutant of after_join: an Err among the results ends the loop.
after_join_propagates(t) ==
    IF \E p \in DOMAIN t : t[p] = "failed" THEN "panicked" ELSE "sleep"

\* Lines 168-169: join_all(handles).await resolves when every future has
\* returned.
all_joined(t) == \A p \in DOMAIN t : Finished(t[p])

\* Lines 170-177: each Err among the results is printed with eprintln!, and
\* the loop goes on to its sleep.
after_join(t) == "sleep"

\* Lines 168-175: the end of the futures of a tick.
JoinAll ==
    /\ Alive
    /\ loopPc = "join"
    /\ all_joined(task)
    /\ loopPc' = after_join(task)
    /\ UNCHANGED <<fs, clock, mainPc, walk, table, snapshot, task, lock,
                   tracked, edits, faults>>
    /\ UNCHANGED histVars

\* Mutant of table_next_tick: the map is created inside the loop.
table_recreated(map) == EmptyMap

\* Lines 102-104: modify_times is created before `loop` and is the same map
\* in every iteration.
table_next_tick(map) == map

\* Line 177: tokio::time::sleep(Duration::from_secs(1)), after which the
\* iteration ends and its locals are gone.
Sleep ==
    /\ Alive
    /\ loopPc = "sleep"
    /\ clock + SleepSecs <= MaxClock
    /\ clock' = clock + SleepSecs
    /\ loopPc' = "snapshot"
    /\ snapshot' = EmptyMap
    /\ task' = EmptyMap
    /\ tracked' = {}
    /\ due' = {}
    /\ seen' = {}
    /\ table' = table_next_tick(table)
    /\ UNCHANGED <<fs, mainPc, walk, lock, edited, touched, edits, faults>>

----
\* The user of work_dir, and the passing of time.

\* Whether the backup copy of a file of work_dir has the file's content.
InSync(f, p) == f.content[dst_path_of(p, WorkDir, BackupDir)] = f.content[p]

\* A file is created in work_dir, with its parent directories.
AddFile ==
    /\ Alive
    /\ edits < MaxEdits
    /\ \E p \in WorkPaths, c \in Contents :
          /\ ~IsFile(fs, p)
          /\ ~IsDir(fs, p)
          /\ create_dir_all(fs, pop(p)).ok
          /\ fs' = WriteFile(create_dir_all(fs, pop(p)).fs, p, c, clock)
          /\ touched' = touched \cup {p}
          /\ due' = due \ {p}
    /\ edits' = edits + 1
    /\ UNCHANGED <<clock, mainPc, walk, edited, seen, faults>>
    /\ UNCHANGED loopVars

\* A file of work_dir is rewritten with another content.
ModifyFile ==
    /\ Alive
    /\ edits < MaxEdits
    /\ \E p \in WorkPaths, c \in Contents :
          /\ IsFile(fs, p)
          /\ c # fs.content[p]
          /\ fs' = WriteFile(fs, p, c, clock)
          /\ touched' = touched \cup {p}
          /\ due' = due \ {p}
          /\ edited' = IF p \in DOMAIN table /\ InSync(fs, p) /\ clock > fs.mtime[p]
                        THEN edited \cup {p}
                        ELSE edited
    /\ edits' = edits + 1
    /\ UNCHANGED <<clock, mainPc, walk, seen, faults>>
    /\ UNCHANGED loopVars

\* The directories of work_dir left empty by the removal of a file.
EmptyDirs(f, p) ==
    {d \in Ancestors(pop(p)) :
        /\ Len(d) > Len(WorkDir)
        /\ \A q \in WalkFiles(f, WorkDir) : q = p \/ ~IsPrefix(d, q)}

\* A file of work_dir is removed, with the directories it leaves empty.
RemoveFile ==
    /\ Alive
    /\ edits < MaxEdits
    /\ \E p \in WorkPaths :
          /\ IsFile(fs, p)
          /\ fs' = [RemoveEntry(fs, p) EXCEPT !.dirs = @ \ EmptyDirs(fs, p)]
          /\ touched' = touched \ {p}
          /\ due' = due \ {p}
          /\ edited' = edited \ {p}
    /\ edits' = edits + 1
    /\ UNCHANGED <<clock, mainPc, walk, seen, faults>>
    /\ UNCHANGED loopVars

\* A second passes.
ClockAdvance ==
    /\ Alive
    /\ clock < MaxClock
    /\ clock' = clock + 1
    /\ UNCHANGED <<fs, mainPc, walk, edits, faults>>
    /\ UNCHANGED loopVars
    /\ UNCHANGED histVars

----
Next ==
    \/ ClearEntry
    \/ ClearDone
    \/ ClearListError
    \/ PopulateFile
    \/ PopulateDone
    \/ TakeSnapshot
    \/ SnapshotPanic
    \/ \E p \in WorkPaths : Lookup(p)
    \/ \E p \in WorkPaths : AcquireWrite(p)
    \/ \E p \in WorkPaths : Insert(p)
    \/ \E p \in WorkPaths : Copy(p)
    \/ JoinAll
    \/ Sleep
    \/ AddFile
    \/ ModifyFile
    \/ RemoveFile
    \/ ClockAdvance

Spec == Init /\ [][Next]_vars

\* The program with the Ctrl-C that main() awaits at line 90.
NextExit ==
    \/ Next
    \/ CtrlC

SpecExit == Init /\ [][NextExit]_vars

----
\* Properties.

\* The backup counterpart of a file of work_dir, and back.
BackupOf(p) == BackupDir \o Tail(p)
HasBackup(p) == IsFile(fs, BackupOf(p))
SameAsBackup(p) == fs.content[BackupOf(p)] = fs.content[p]

\* The futures of the tick have all returned and the sleep has not ended.
TickEnd == Alive /\ loopPc = "sleep"

\* The files of the snapshot that were new or modified for the tick.  A stored
\* value never changes, so the table of the end of the tick tells.
NewInTick(p) == p \in DOMAIN task /\ p \notin tracked
ChangedInTick(p) ==
    p \in DOMAIN task /\ p \in tracked /\ snapshot[p] > table[p]
Attempted(p) == p \in DOMAIN task /\ task[p] \in {"copied", "failed"}

\* C1, first half: at the end of a tick, the backup copy of every file that
\* was tracked and in sync when a modification advanced its modification time,
\* and whose modification the tick's snapshot saw, holds the new content.
C1_Converged ==
    TickEnd => \A p \in due : task[p] # "failed" => SameAsBackup(p)

\* C1, second half: a tracked file that was neither added nor modified since
\* the previous snapshot is not copied in the tick.
C1_UnmodifiedNotCopied ==
    TickEnd =>
        \A p \in DOMAIN task : (p \in tracked /\ p \notin seen) => ~Attempted(p)

\* C1: tick convergence: a modification of a tracked, in-sync file that
\* advances its modification time is in the backup copy by the end of the next
\* tick, whatever the stored table entry; unmodified files are not copied.
C1_TickConvergence == C1_Converged /\ C1_UnmodifiedNotCopied

\* C2: new-file propagation: at the end of a tick, every file of its snapshot
\* that had no table entry when the snapshot was taken, and whose copy did not
\* fail, is present in backup_dir at the same relative path.
C2_NewFilePropagation ==
    TickEnd => \A p \in DOMAIN task :
        (NewInTick(p) /\ task[p] # "failed") => HasBackup(p)

\* A file added to work_dir after an earlier tick had tracked another file has
\* been copied by the first tick that saw it.
C2_Witness ==
    /\ TickEnd
    /\ tracked # {}
    /\ \E p \in DOMAIN task :
          /\ NewInTick(p)
          /\ p \in seen
          /\ task[p] = "copied"
          /\ HasBackup(p)

BackupFiles == WalkFiles(fs, BackupDir)

\* C3: no deletion propagation: no step of the program or of the user of
\* work_dir removes a file path from backup_dir.
C3_NoDeletion == [][BackupFiles \subseteq BackupFiles']_vars

\* A tick has run on a snapshot without a tracked file, removed from work_dir,
\* whose backup copy is still there.
C3_Witness ==
    /\ TickEnd
    /\ \E p \in tracked :
          /\ p \notin DOMAIN snapshot
          /\ ~IsFile(fs, p)
          /\ HasBackup(p)

\* main() has just spawned the loop: the Initializer completed successfully.
Initialized ==
    /\ Alive
    /\ loopPc = "snapshot"
    /\ table = EmptyMap
    /\ edits = 0

\* C4: idempotent initialization: when the Initializer has completed
\* successfully, whatever work_dir held before, every relative path holds the
\* same file in work_dir as in backup_dir, or in neither.
C4_InitExact ==
    Initialized =>
        \A r \in RelPaths : fs.content[WorkDir \o r] = fs.content[BackupDir \o r]

\* The step copied the file at src_root/r to dst_root/r and touched no other
\* file, with the parent directories of dst_root/r in place and no directory
\* removed.
CopiedExactly(r, src_root, dst_root) ==
    /\ fs'.content[dst_root \o r] = fs.content[src_root \o r]
    /\ \A q \in AllPaths \ {dst_root \o r} : fs'.content[q] = fs.content[q]
    /\ \A n \in 1..(Len(dst_root \o r) - 1) :
          SubSeq(dst_root \o r, 1, n) \in fs'.dirs
    /\ fs.dirs \subseteq fs'.dirs

\* A future of the loop returns Ok from copy_to_dst on work_dir/r.
LoopCopies(r) ==
    /\ WorkDir \o r \in DOMAIN task
    /\ task[WorkDir \o r] = "copy"
    /\ task'[WorkDir \o r] = "copied"

\* main() gets Ok from copy_to_dst on backup_dir/r.
InitCopies(r) ==
    /\ mainPc = "populate"
    /\ BackupDir \o r \in walk
    /\ BackupDir \o r \notin walk'
    /\ mainPc' = "populate"

\* C5: path fidelity: a successful copy of src_root/r from src_root to
\* dst_root writes exactly dst_root/r, creates its missing parent directories
\* and removes nothing, in the loop and in the Initializer.
C5_PathFidelity ==
    [][\A r \in RelPaths :
          /\ LoopCopies(r) => CopiedExactly(r, WorkDir, BackupDir)
          /\ InitCopies(r) => CopiedExactly(r, BackupDir, WorkDir)]_vars

\* work_dir/d/a has been copied into a backup_dir that held no file: d was
\* created by the copy.
C5_Witness ==
    /\ TickEnd
    /\ <<"w", "d", "a">> \in DOMAIN task
    /\ task[<<"w", "d", "a">>] = "copied"
    /\ IsFile(fs, <<"b", "d", "a">>)
    /\ IsDir(fs, <<"b", "d">>)
    /\ ~IsFile(fs, <<"b", "a">>)

\* C6: concurrent safety: at the end of a tick, under every interleaving of
\* its futures, every file that was new or modified has been copied (or its
\* copy has failed), and the table holds a key for every path of the snapshot
\* and for every path it held before.
C6_ConcurrentSafety ==
    TickEnd =>
        /\ \A p \in DOMAIN task :
              /\ p \in DOMAIN table
              /\ (NewInTick(p) \/ ChangedInTick(p)) => Attempted(p)
              /\ task[p] = "copied" => HasBackup(p)
        /\ tracked \subseteq DOMAIN table

\* Two files were new in one tick and both were copied.
C6_Witness ==
    /\ TickEnd
    /\ Cardinality({p \in DOMAIN task : NewInTick(p) /\ task[p] = "copied"}) = 2
    /\ Cardinality(DOMAIN table) = 2

\* C7: tick barrier: a future that has not returned keeps the loop in
\* join_all; no snapshot is taken and no sleep starts while one is running,
\* and the lock is free outside join_all.
C7_TickBarrier ==
    loopPc # "join" =>
        /\ \A p \in DOMAIN task : Finished(task[p])
        /\ lock = NoLock

\* A later tick is in join_all with one future returned and one running.
C7_Witness ==
    /\ loopPc = "join"
    /\ clock > 0
    /\ \E p \in DOMAIN task, q \in DOMAIN task :
          Finished(task[p]) /\ ~Finished(task[q])

\* C8: per-file failure isolation: a failed copy leaves the loop in its tick,
\* which ends normally with every other new or modified file attempted and
\* every successful copy in backup_dir.
C8_FailureIsolation ==
    /\ (\E q \in DOMAIN task : task[q] = "failed") => loopPc \in {"join", "sleep"}
    /\ TickEnd =>
          \A q \in DOMAIN task : task[q] = "failed" =>
              \A p \in DOMAIN task \ {q} :
                  /\ Finished(task[p])
                  /\ (NewInTick(p) \/ ChangedInTick(p)) => Attempted(p)
                  /\ task[p] = "copied" => HasBackup(p)

\* A tick has ended with one copy failed and another one made.
C8_Witness ==
    /\ TickEnd
    /\ \E q \in DOMAIN task, p \in DOMAIN task :
          task[q] = "failed" /\ task[p] = "copied" /\ SameAsBackup(p)

\* C9: table entries are never removed: no step takes a key out of
\* modify_times.
C9_KeysOnlyGrow == [][DOMAIN table \subseteq DOMAIN table']_vars

\* A key of a file removed from work_dir is still in the table after a tick
\* and its sleep.
C9_Witness ==
    /\ Alive
    /\ loopPc = "snapshot"
    /\ clock > 0
    /\ \E p \in DOMAIN table : ~IsFile(fs, p)

\* C10: table entries are updated on a newer modification time: at the end of
\* a tick, the stored value of a tracked file of the snapshot is not older
\* than its snapshot modification time.
C10_EntryUpdated ==
    TickEnd =>
        \A p \in DOMAIN task : p \in tracked => table[p] >= snapshot[p]

\* C11: fatal errors end the process with a failure status: once the sync
\* loop has hit a fatal snapshot error the process does not exit with status
\* zero, and a process that exits with a failure status has had no per-file
\* copy error to cause it.
C11_FatalExitStatus ==
    /\ loopPc = "panicked" => mainPc # "exit_ok"
    /\ mainPc = "exit_err" => \A p \in DOMAIN task : task[p] # "failed"

\* The files of work_dir that the populate phase has written so far.
Populated == {WorkDir \o Tail(q) : q \in BackupFiles \ walk}

\* C12: clear before populate: when the Initializer copies a file into
\* work_dir, every entry of work_dir is a file that the populate phase has
\* written or a directory on the way to one: nothing from before is left.
C12_ClearBeforePopulate ==
    [][(\E r \in RelPaths : InitCopies(r)) =>
          \A e \in Entries(fs, WorkDir) :
              \E p \in Populated : IsPrefix(e, p)]_vars

\* C13: diff decision: at the end of every tick, a path of the snapshot has
\* had a copy attempted if and only if it had no table entry or its snapshot
\* modification time is greater than the stored value; and the step in which a
\* future decides not to copy leaves the table as it is.
C13_DiffDecision ==
    [][/\ TickEnd' =>
            \A p \in DOMAIN task' :
                Attempted(p)' <=> (NewInTick(p)' \/ ChangedInTick(p)')
       /\ \A p \in DOMAIN task :
            (task[p] = "start" /\ task'[p] = "skipped") =>
                /\ table' = table
                /\ fs' = fs
                /\ snapshot[p] <= table[p]]_vars

\* A tick has ended in which a tracked file with a newer modification time was
\* copied and a tracked file with an older or equal one was not.
C13_Witness ==
    /\ TickEnd
    /\ \E p \in DOMAIN task, q \in DOMAIN task :
          /\ ChangedInTick(p)
          /\ task[p] = "copied"
          /\ q \in tracked
          /\ snapshot[q] <= table[q]
          /\ task[q] = "skipped"

\* C14: the modified branch leaves the table unchanged: no step replaces a
\* stored value; a tracked file whose modification time is greater than its
\* stored value keeps it greater for as long as it is there; and at the end of
\* every tick every tracked file of the snapshot with a modification time
\* greater than its stored value has had a copy attempted.
C14_ModifiedKeepsEntry ==
    [][/\ \A p \in DOMAIN table :
            /\ p \in DOMAIN table'
            /\ table'[p] = table[p]
       /\ \A p \in DOMAIN table :
            (IsFile(fs, p) /\ fs.mtime[p] > table[p] /\ IsFile(fs', p)) =>
                fs'.mtime[p] > table'[p]
       /\ TickEnd' =>
            \A p \in DOMAIN task' :
                (p \in tracked' /\ snapshot'[p] > table'[p]) => Attempted(p)']_vars

\* A tick has ended in which a tracked file was copied again although it was
\* not written since the snapshot of the tick before.
C14_Witness ==
    /\ TickEnd
    /\ \E p \in DOMAIN task :
          /\ p \in tracked
          /\ p \notin seen
          /\ snapshot[p] > table[p]
          /\ task[p] = "copied"

\* C15: a snapshot failure is fatal to the tick and to the loop: the step in
\* which reading a file's metadata fails ends the loop with no future created
\* and the table and the filesystem as they were; from then on the loop stays
\* ended, the table is unchanged, no future exists and nothing is written to
\* backup_dir.
C15_SnapshotFailureFatal ==
    [][/\ (loopPc = "snapshot" /\ faults' # faults) =>
            /\ loopPc' = "panicked"
            /\ table' = table
            /\ fs' = fs
            /\ DOMAIN task' = {}
       /\ loopPc = "panicked" =>
            /\ loopPc' = "panicked"
            /\ table' = table
            /\ DOMAIN task' = {}
            /\ \A q \in BackupPaths : fs'.content[q] = fs.content[q]]_vars

\* The snapshot of a later tick has failed, and a file of work_dir written
\* since differs from its backup copy.
C15_Witness ==
    /\ loopPc = "panicked"
    /\ DOMAIN table # {}
    /\ edited # {}
    /\ \E p \in edited : IsFile(fs, p) /\ ~SameAsBackup(p)

\* The futures that hold the table lock, and those that wait for it.
Holders == lock.readers \cup lock.writers
Waiting == {p \in DOMAIN task : task[p] \in {"start", "add"}}

\* C16: the table lock is never held across a file copy: a future holds the
\* lock only between the grant of its write access and its insert, never when
\* it is about to ask for write access, is copying or has returned; the insert
\* that releases the lock can always be made; and a future that waits for the
\* lock can take it, or the lock is with a future whose next step is that
\* insert, whatever copies are under way.
C16_LockNotHeldAcrossCopy ==
    /\ Holders \subseteq {p \in DOMAIN task : task[p] = "writing"}
    /\ (Alive /\ loopPc = "join") =>
          \A p \in DOMAIN task :
              /\ task[p] = "writing" => ENABLED Insert(p)
              /\ p \in Waiting =>
                    \/ ENABLED (Lookup(p) \/ AcquireWrite(p))
                    \/ \E w \in Holders : task[w] = "writing"

\* A copy is under way, not yet returned, while a sibling of the same tick is
\* given write access to the table.
C16_Witness ==
    /\ Alive
    /\ loopPc = "join"
    /\ \E p \in DOMAIN task, q \in DOMAIN task :
          /\ task[p] = "copy"
          /\ task[q] = "writing"
          /\ lock.writers = {q}

\* C17: a failed copy is retried: at the end of every tick after the one that
\* first observed it, a file of the snapshot that was last written before its
\* table entry was made, so is unchanged since, and whose copy has not failed
\* in this tick, is in backup_dir.
C17_FailedCopyRetried ==
    TickEnd =>
        \A p \in DOMAIN task :
            (/\ p \in tracked
             /\ IsFile(fs, p)
             /\ fs.mtime[p] = snapshot[p]
             /\ snapshot[p] < table[p]
             /\ task[p] # "failed") => HasBackup(p)

\* Every file, modification time and directory that the step creates, changes
\* or removes is under root.
WritesUnder(root) ==
    /\ \A q \in AllPaths : fs'.content[q] # fs.content[q] => IsPrefix(root, q)
    /\ \A q \in DOMAIN fs.mtime :
          fs'.mtime[q] # fs.mtime[q] => IsPrefix(root, q)
    /\ \A d \in (fs'.dirs \ fs.dirs) \cup (fs.dirs \ fs'.dirs) :
          IsPrefix(root, d)

\* C18: one-way data flow per phase: whatever a step of the Initializer
\* creates, changes or removes is under work_dir, so backup_dir is only read;
\* whatever a step of the sync loop creates, changes or removes is under
\* backup_dir, so work_dir is only read.
C18_OneWayDataFlow ==
    [][/\ mainPc \in {"clear", "populate"} => WritesUnder(WorkDir)
       /\ (mainPc = "wait" /\ loopVars' # loopVars) =>
            WritesUnder(BackupDir)]_vars

\* The Initializer has filled work_dir from backup_dir, and the first tick of
\* the loop, at a later second, has copied every file back: both trees hold
\* the files backup_dir started with and work_dir has its populate times.
C18_Witness ==
    /\ TickEnd
    /\ edits = 0
    /\ clock > 0
    /\ \A p \in WorkPaths :
          /\ p \in DOMAIN task
          /\ task[p] = "copied"
          /\ fs.mtime[p] = 0
          /\ fs.content[p] = "hello"
          /\ SameAsBackup(p)

====
